---- MODULE Spec2Model ----
(***************************************************************************)
(* Model of the YANG schema printer of libyang (src/printer/yang.c).       *)
(*                                                                         *)
(* The sink is a character stream.  A character is a one-token string:     *)
(* SP, NL, QUOTE and the punctuation are single characters, keywords and   *)
(* identifiers are atomic tokens, and the characters of a free text are    *)
(* drawn from TextAlphabet.  Every fprintf/fwrite of the source is one     *)
(* fragment (a sequence of tokens); a printer is an operator that returns  *)
(* the sequence of fragments it writes, in order.                          *)
(***************************************************************************)
EXTENDS Integers, Sequences, FiniteSets, TLC

(***************************************************************************)
(* Bounds of the model.                                                    *)
(***************************************************************************)
MaxTextLen == 3
MaxImp == 2
MaxInc == 2
MaxKeys == 2
MaxFailAt == 6

(***************************************************************************)
(* Characters and C strings.                                               *)
(***************************************************************************)
SP == " "
NL == "\n"
QUOTE == "\""

\* A pointer that may be NULL: <<>> is NULL, <<v>> points to v.
NULL == <<>>
Some(v) == <<v>>
IsSet(p) == Len(p) = 1
Val(p) == p[1]

\* #define LEVEL (level*2)
LEVEL(level) == level * 2

\* printf("%*s", LEVEL, INDENT) with INDENT "": LEVEL spaces.
Indent(level) == [k \in 1..LEVEL(level) |-> SP]

\* strchr(t, '\n'): the index of the first newline of t, 0 when there is none.
RECURSIVE strchrNL(_, _)
strchrNL(t, k) ==
    IF k > Len(t) THEN 0
    ELSE IF t[k] = NL THEN k
    ELSE strchrNL(t, k + 1)

(***************************************************************************)
(* Flag bits and node types (a bit set is a set of bit names, & is \cap).  *)
(***************************************************************************)
LY_NODE_CONFIG_W == "CONFIG_W"
LY_NODE_CONFIG_R == "CONFIG_R"
LY_NODE_CONFIG_MASK == {LY_NODE_CONFIG_W, LY_NODE_CONFIG_R}
LY_NODE_STATUS_CURR == "STATUS_CURR"
LY_NODE_STATUS_DEPRC == "STATUS_DEPRC"
LY_NODE_STATUS_OBSLT == "STATUS_OBSLT"

LY_NODE_CONTAINER == "CONTAINER"
LY_NODE_CHOICE == "CHOICE"
LY_NODE_LEAF == "LEAF"
LY_NODE_LEAFLIST == "LEAFLIST"
LY_NODE_LIST == "LIST"
LY_NODE_USES == "USES"
LY_NODE_GROUPING == "GROUPING"

LY_TYPE_ENUM == "ENUM"
LY_TYPE_IDENT == "IDENT"
LY_TYPE_STRING == "STRING"

\* The mask passed by the module, a container, a list and a grouping.
MaskAll ==
    {LY_NODE_CHOICE, LY_NODE_CONTAINER, LY_NODE_LEAF, LY_NODE_LEAFLIST,
     LY_NODE_LIST, LY_NODE_USES, LY_NODE_GROUPING}

\* Variant: a choice passes the mask of a container.
MaskChoice_all == MaskAll

\* The mask passed by a choice.
MaskChoice == {LY_NODE_CONTAINER, LY_NODE_LEAF, LY_NODE_LEAFLIST, LY_NODE_LIST}

(***************************************************************************)
(* yang_print_text                                                         *)
(***************************************************************************)
\* The while loop and the final fprintf; level is already incremented.
RECURSIVE TextLoop(_, _)
TextLoop(level, t) ==
    LET s == strchrNL(t, 1) IN
    IF s # 0
    THEN <<SubSeq(t, 1, s), Indent(level)>>
             \o TextLoop(level, SubSeq(t, s + 1, Len(t)))
    ELSE <<t \o <<QUOTE, ";", NL, NL>>>>

\* Variant: the text is cut at its first newline only.
yang_print_text_oneNL(level, name, text) ==
    <<Indent(level) \o <<name, NL>>, Indent(level + 1) \o <<QUOTE>>>>
        \o (LET s == strchrNL(text, 1) IN
            IF s # 0
            THEN <<SubSeq(text, 1, s), Indent(level + 1),
                   SubSeq(text, s + 1, Len(text)) \o <<QUOTE, ";", NL, NL>>>>
            ELSE <<text \o <<QUOTE, ";", NL, NL>>>>)

yang_print_text(level, name, text) ==
    <<Indent(level) \o <<name, NL>>, Indent(level + 1) \o <<QUOTE>>>>
        \o TextLoop(level + 1, text)

(***************************************************************************)
(* yang_print_mnode_common: status, description, reference                 *)
(***************************************************************************)
\* Variant: the keywords of deprecated and obsolete are exchanged.
StatusLine_swapped(level, flags) ==
    IF LY_NODE_STATUS_CURR \in flags
    THEN <<Indent(level) \o <<"status", SP, QUOTE, "current", QUOTE, ";", NL>>>>
    ELSE IF LY_NODE_STATUS_DEPRC \in flags
    THEN <<Indent(level) \o <<"status", SP, QUOTE, "obsolete", QUOTE, ";", NL>>>>
    ELSE IF LY_NODE_STATUS_OBSLT \in flags
    THEN <<Indent(level) \o <<"status", SP, QUOTE, "deprecated", QUOTE, ";", NL>>>>
    ELSE <<>>

StatusLine(level, flags) ==
    IF LY_NODE_STATUS_CURR \in flags
    THEN <<Indent(level) \o <<"status", SP, QUOTE, "current", QUOTE, ";", NL>>>>
    ELSE IF LY_NODE_STATUS_DEPRC \in flags
    THEN <<Indent(level) \o <<"status", SP, QUOTE, "deprecated", QUOTE, ";", NL>>>>
    ELSE IF LY_NODE_STATUS_OBSLT \in flags
    THEN <<Indent(level) \o <<"status", SP, QUOTE, "obsolete", QUOTE, ";", NL>>>>
    ELSE <<>>

\* mnode is any record with the fields flags, dsc and ref.
yang_print_mnode_common(level, mnode) ==
    StatusLine(level, mnode.flags)
        \o (IF IsSet(mnode.dsc)
            THEN yang_print_text(level, "description", Val(mnode.dsc))
            ELSE <<>>)
        \o (IF IsSet(mnode.ref)
            THEN yang_print_text(level, "reference", Val(mnode.ref))
            ELSE <<>>)

(***************************************************************************)
(* yang_print_mnode_common2: config, then the common metadata              *)
(***************************************************************************)
\* Variant: config is printed whatever the parent's flag is.
ConfigLine_always(level, flags, parentFlags) ==
    IF LY_NODE_CONFIG_W \in flags
    THEN <<Indent(level) \o <<"config", SP, QUOTE, "true", QUOTE, ";", NL>>>>
    ELSE IF LY_NODE_CONFIG_R \in flags
    THEN <<Indent(level) \o <<"config", SP, QUOTE, "false", QUOTE, ";", NL>>>>
    ELSE <<>>

\* parentFlags is NULL for a root node, else Some(parent->flags).
ConfigLine(level, flags, parentFlags) ==
    IF \/ ~IsSet(parentFlags)
       \/ (Val(parentFlags) \cap LY_NODE_CONFIG_MASK) # (flags \cap LY_NODE_CONFIG_MASK)
    THEN IF LY_NODE_CONFIG_W \in flags
         THEN <<Indent(level) \o <<"config", SP, QUOTE, "true", QUOTE, ";", NL>>>>
         ELSE IF LY_NODE_CONFIG_R \in flags
         THEN <<Indent(level) \o <<"config", SP, QUOTE, "false", QUOTE, ";", NL>>>>
         ELSE <<>>
    ELSE <<>>

ParentFlags(nodes, mnode) ==
    IF mnode.parent = 0 THEN NULL ELSE Some(nodes[mnode.parent].flags)

yang_print_mnode_common2(nodes, level, mnode) ==
    ConfigLine(level, mnode.flags, ParentFlags(nodes, mnode))
        \o yang_print_mnode_common(level, mnode)

(***************************************************************************)
(* yang_print_type                                                         *)
(***************************************************************************)
\* Variant: the prefix is decided by the module of the derived type.
TypeHead_byModule(level, module, type) ==
    IF type.der.module.name # module
    THEN Indent(level) \o
             <<"type", SP, type.der.module.prefix, ":", type.der.name, SP, "{", NL>>
    ELSE Indent(level) \o <<"type", SP, type.der.name, SP, "{", NL>>

\* The first fprintf: the type name, with the type's prefix when it has one.
TypeHead(level, module, type) ==
    IF IsSet(type.prefix)
    THEN Indent(level) \o <<"type", SP, Val(type.prefix), ":", type.der.name, SP, "{", NL>>
    ELSE Indent(level) \o <<"type", SP, type.der.name, SP, "{", NL>>

\* The body of the for loop over type->info.enums.list, from entry i on.
RECURSIVE EnumLoop(_, _, _)
EnumLoop(level, list, i) ==
    IF i > Len(list) THEN <<>>
    ELSE <<Indent(level) \o <<"enum", SP, list[i].name, SP, "{", NL>>>>
             \o yang_print_mnode_common(level + 1, list[i])
             \o <<Indent(level + 1) \o <<"value", SP, ToString(list[i].value), ";", NL>>,
                  Indent(level) \o <<"}", NL>>>>
             \o EnumLoop(level, list, i + 1)

\* module is the name of the module the caller passes.
yang_print_type(level, module, type) ==
    <<TypeHead(level, module, type)>>
        \o (CASE type.base = LY_TYPE_ENUM -> EnumLoop(level + 1, type.enums, 1)
              [] type.base = LY_TYPE_IDENT ->
                    IF module = type.ident.module.name
                    THEN <<Indent(level + 1) \o <<"base", SP, type.ident.name, ";", NL>>>>
                    ELSE <<Indent(level + 1) \o
                             <<"base", SP, type.ident.module.prefix, ":",
                               type.ident.name, ";", NL>>>>
              [] OTHER -> <<>>)
        \o <<Indent(level) \o <<"}", NL>>>>

(***************************************************************************)
(* yang_print_typedef, yang_print_identity                                 *)
(***************************************************************************)
yang_print_typedef(level, module, tpdf) ==
    <<Indent(level) \o <<"typedef", SP, tpdf.name, SP, "{", NL>>>>
        \o yang_print_mnode_common(level + 1, tpdf)
        \o yang_print_type(level + 1, module, tpdf.type)
        \o <<Indent(level) \o <<"}", NL>>>>

\* for (i = 0; i < tpdf_size; i++) yang_print_typedef(...)
RECURSIVE TypedefLoop(_, _, _, _)
TypedefLoop(level, module, tpdf, i) ==
    IF i > Len(tpdf) THEN <<>>
    ELSE yang_print_typedef(level, module, tpdf[i])
             \o TypedefLoop(level, module, tpdf, i + 1)

yang_print_identity(level, ident) ==
    <<Indent(level) \o <<"identity", SP, ident.name, SP, "{", NL>>>>
        \o yang_print_mnode_common(level + 1, ident)
        \o (IF IsSet(ident.base)
            THEN IF Val(ident.base).module.name = ident.module
                 THEN <<Indent(level + 1) \o <<"base", SP, Val(ident.base).name, ";", NL>>>>
                 ELSE <<Indent(level + 1) \o
                          <<"base", SP, Val(ident.base).module.prefix, ":",
                            Val(ident.base).name, ";", NL>>>>
            ELSE <<>>)
        \o <<Indent(level) \o <<"}", NL>>>>

(***************************************************************************)
(* The node printers and the dispatcher                                    *)
(***************************************************************************)
\* The fprintf calls of the key statement of a list.
RECURSIVE KeyLoop(_, _, _)
KeyLoop(nodes, keys, i) ==
    IF i > Len(keys) THEN <<>>
    ELSE <<(<<nodes[keys[i]].name>> \o (IF i + 1 <= Len(keys) THEN <<SP>> ELSE <<>>))>>
             \o KeyLoop(nodes, keys, i + 1)

\* Variant: the keys are printed in the order of their nodes.
KeyLine_sorted(nodes, level, keys) ==
    IF Len(keys) # 0
    THEN <<Indent(level) \o <<"key", SP, QUOTE>>>>
             \o KeyLoop(nodes,
                        SortSeq(keys, LAMBDA a, b: a < b), 1)
             \o <<(<<QUOTE, ";", NL>>)>>
    ELSE <<>>

\* if (list->keys_size) { ... }
KeyLine(nodes, level, keys) ==
    IF Len(keys) # 0
    THEN <<Indent(level) \o <<"key", SP, QUOTE>>>>
             \o KeyLoop(nodes, keys, 1)
             \o <<(<<QUOTE, ";", NL>>)>>
    ELSE <<>>

RECURSIVE yang_print_mnode(_, _, _, _)
RECURSIVE ChildLoop(_, _, _, _, _)

\* LY_TREE_FOR(mnode->child, sub) yang_print_mnode(f, level, sub, mask)
ChildLoop(nodes, level, child, mask, i) ==
    IF i > Len(child) THEN <<>>
    ELSE yang_print_mnode(nodes, level, child[i], mask)
             \o ChildLoop(nodes, level, child, mask, i + 1)

yang_print_container(nodes, level, mnode) ==
    <<Indent(level) \o <<"container", SP, mnode.name, SP, "{", NL>>>>
        \o yang_print_mnode_common2(nodes, level + 1, mnode)
        \o TypedefLoop(level + 1, mnode.module, mnode.tpdf, 1)
        \o ChildLoop(nodes, level + 1, mnode.child, MaskAll, 1)
        \o <<Indent(level) \o <<"}", NL>>>>

\* Variant: level is not decremented before the closing brace.
yang_print_choice_nodec(nodes, level, mnode) ==
    <<Indent(level) \o <<"choice", SP, mnode.name, SP, "{", NL>>>>
        \o yang_print_mnode_common2(nodes, level + 1, mnode)
        \o ChildLoop(nodes, level + 1, mnode.child, MaskChoice, 1)
        \o <<Indent(level + 1) \o <<"}", NL>>>>

yang_print_choice(nodes, level, mnode) ==
    <<Indent(level) \o <<"choice", SP, mnode.name, SP, "{", NL>>>>
        \o yang_print_mnode_common2(nodes, level + 1, mnode)
        \o ChildLoop(nodes, level + 1, mnode.child, MaskChoice, 1)
        \o <<Indent(level) \o <<"}", NL>>>>

yang_print_leaf(nodes, level, mnode) ==
    <<Indent(level) \o <<"leaf", SP, mnode.name, SP, "{", NL>>>>
        \o yang_print_mnode_common2(nodes, level + 1, mnode)
        \o yang_print_type(level + 1, mnode.module, mnode.type)
        \o <<Indent(level) \o <<"}", NL>>>>

yang_print_leaflist(nodes, level, mnode) ==
    <<Indent(level) \o <<"leaf-list", SP, mnode.name, SP, "{", NL>>>>
        \o yang_print_mnode_common2(nodes, level + 1, mnode)
        \o yang_print_type(level + 1, mnode.module, mnode.type)
        \o <<Indent(level) \o <<"}", NL>>>>

yang_print_list(nodes, level, mnode) ==
    <<Indent(level) \o <<"list", SP, mnode.name, SP, "{", NL>>>>
        \o yang_print_mnode_common2(nodes, level + 1, mnode)
        \o KeyLine(nodes, level + 1, mnode.keys)
        \o TypedefLoop(level + 1, mnode.module, mnode.tpdf, 1)
        \o ChildLoop(nodes, level + 1, mnode.child, MaskAll, 1)
        \o <<Indent(level) \o <<"}", NL>>>>

yang_print_grouping(nodes, level, mnode) ==
    <<Indent(level) \o <<"grouping", SP, mnode.name, SP, "{", NL>>>>
        \o yang_print_mnode_common(level + 1, mnode)
        \o TypedefLoop(level + 1, mnode.module, mnode.tpdf, 1)
        \o ChildLoop(nodes, level + 1, mnode.child, MaskAll, 1)
        \o <<Indent(level) \o <<"}", NL>>>>

yang_print_uses(nodes, level, mnode) ==
    <<Indent(level) \o <<"uses", SP, mnode.name, SP, "{", NL>>>>
        \o yang_print_mnode_common(level + 1, mnode)
        \o <<Indent(level) \o <<"}", NL>>>>

\* switch (mnode->nodetype & mask)
yang_print_mnode(nodes, level, id, mask) ==
    LET mnode == nodes[id]
        sel == mnode.nodetype \cap mask
    IN  CASE sel = {LY_NODE_CONTAINER} -> yang_print_container(nodes, level, mnode)
          [] sel = {LY_NODE_CHOICE} -> yang_print_choice(nodes, level, mnode)
          [] sel = {LY_NODE_LEAF} -> yang_print_leaf(nodes, level, mnode)
          [] sel = {LY_NODE_LEAFLIST} -> yang_print_leaflist(nodes, level, mnode)
          [] sel = {LY_NODE_LIST} -> yang_print_list(nodes, level, mnode)
          [] sel = {LY_NODE_USES} -> yang_print_uses(nodes, level, mnode)
          [] sel = {LY_NODE_GROUPING} -> yang_print_grouping(nodes, level, mnode)
          [] OTHER -> <<>>

(***************************************************************************)
(* The input: the modules the printer is run on.                           *)
(*                                                                         *)
(* A module is a record; its nodes are the function nodes from a node id   *)
(* (1..n) to the node's record, with parent = 0 for a root node and child  *)
(* the sequence of the ids of its children in sibling order.               *)
(***************************************************************************)
TextAlphabet == {"a", NL}

\* All sequences over S of length at most n.
SeqsUpTo(S, n) == UNION {[1..k -> S] : k \in 0..n}

Texts == SeqsUpTo(TextAlphabet, MaxTextLen)

ThisModule == [name |-> "m1", prefix |-> "m"]
OtherModule == [name |-> "m2", prefix |-> "x"]

ConfigFlags == {{}, {LY_NODE_CONFIG_W}, {LY_NODE_CONFIG_R}}
StatusFlags == {{}, {LY_NODE_STATUS_CURR}, {LY_NODE_STATUS_DEPRC}, {LY_NODE_STATUS_OBSLT}}
NodeKinds == MaskAll
InnerKinds == {LY_NODE_CONTAINER, LY_NODE_CHOICE, LY_NODE_LIST, LY_NODE_GROUPING}

NoIdent == [name |-> "none", module |-> ThisModule]

StringType ==
    [prefix |-> NULL, der |-> [name |-> "string", module |-> ThisModule],
     base |-> LY_TYPE_STRING, enums |-> <<>>, ident |-> NoIdent]

EnumEntry(k, flags, dsc) ==
    [name |-> "e" \o ToString(k), value |-> k, flags |-> flags, dsc |-> dsc, ref |-> NULL]

\* The type bodies: no body, an enumeration of 0..2 entries, an identityref
\* whose base identity is of this module or of another one.
TypeBodies ==
    {[base |-> LY_TYPE_STRING, enums |-> <<>>, ident |-> NoIdent]}
    \cup {[base |-> LY_TYPE_ENUM, enums |-> es, ident |-> NoIdent] :
            es \in {<<>>, <<EnumEntry(1, {}, NULL)>>,
                    <<EnumEntry(2, {LY_NODE_STATUS_DEPRC}, Some(<<"a">>)),
                      EnumEntry(1, {}, NULL)>>}}
    \cup {[base |-> LY_TYPE_IDENT, enums |-> <<>>,
           ident |-> [name |-> "id1", module |-> mod]] : mod \in {ThisModule, OtherModule}}

\* A type: with or without a prefix string, derived from a type of this module
\* or of another one.
Types ==
    {[prefix |-> p, der |-> [name |-> "t0", module |-> dm],
      base |-> b.base, enums |-> b.enums, ident |-> b.ident] :
        p \in {NULL, Some("m"), Some("x")}, dm \in {ThisModule, OtherModule},
        b \in TypeBodies}

Typedef(k, flags, dsc, type) ==
    [name |-> "td" \o ToString(k), flags |-> flags, dsc |-> dsc, ref |-> NULL,
     type |-> type]

Identity(k, flags, dsc, base) ==
    [name |-> "id" \o ToString(k), module |-> ThisModule.name, flags |-> flags,
     dsc |-> dsc, ref |-> NULL, base |-> base]

Node(id, kind, parent, flags, child) ==
    [nodetype |-> {kind}, name |-> "n" \o ToString(id), module |-> ThisModule.name,
     flags |-> flags, parent |-> parent, child |-> child, dsc |-> NULL, ref |-> NULL,
     keys |-> <<>>, tpdf |-> <<>>, type |-> StringType]

EmptyModule ==
    [name |-> ThisModule.name, ns |-> "urn:m1", prefix |-> ThisModule.prefix,
     version |-> 0, imp |-> <<>>, inc |-> <<>>, org |-> NULL, contact |-> NULL,
     dsc |-> NULL, ref |-> NULL, rev |-> <<>>, ident |-> <<>>, tpdf |-> <<>>,
     data |-> <<>>, nodes |-> <<>>]

Opt(b, v) == IF b THEN Some(v) ELSE NULL

\* Version and the four module texts, present or absent.
HeaderModules ==
    {[EmptyModule EXCEPT !.version = v, !.org = Opt(o, <<"a">>),
                         !.contact = Opt(c, <<"a">>), !.dsc = Opt(d, <<"a">>),
                         !.ref = Opt(r, <<"a">>)] :
        v \in 0..2, o \in BOOLEAN, c \in BOOLEAN, d \in BOOLEAN, r \in BOOLEAN}

\* Imports and includes, each entry with or without a revision-date.
Imports ==
    {[k \in 1..Len(rs) |->
        [module |-> [name |-> "i" \o ToString(k)], prefix |-> <<"p" \o ToString(k)>>,
         rev |-> rs[k]]] : rs \in SeqsUpTo({<<>>, <<"2014">>}, MaxImp)}

Includes ==
    {[k \in 1..Len(rs) |->
        [submodule |-> [name |-> "s" \o ToString(k)], rev |-> rs[k]]] :
        rs \in SeqsUpTo({<<>>, <<"2015">>}, MaxInc)}

ImpIncModules ==
    {[EmptyModule EXCEPT !.imp = im, !.inc = ic] : im \in Imports, ic \in Includes}

Revision(k, dsc, ref) == [date |-> <<"d" \o ToString(k)>>, dsc |-> dsc, ref |-> ref]

\* Revisions with and without description and reference.
RevModules ==
    {[EmptyModule EXCEPT !.rev = <<Revision(1, d, r)>>] :
        d \in {NULL, Some(<<"a">>)}, r \in {NULL, Some(<<"a">>)}}
    \cup {[EmptyModule EXCEPT !.rev = <<Revision(1, d, NULL), Revision(2, NULL, r)>>] :
        d \in {NULL, Some(<<"a">>)}, r \in {NULL, Some(<<"a">>)}}

\* Every text, as the module's description (level 1) and as the description
\* of a revision (level 2).
TextModules ==
    {[EmptyModule EXCEPT !.dsc = Some(t)] : t \in Texts}
    \cup {[EmptyModule EXCEPT !.rev = <<Revision(1, Some(t), NULL)>>] : t \in Texts}

IdentModules ==
    {[EmptyModule EXCEPT !.ident = <<Identity(1, st, d, b)>>] :
        st \in StatusFlags, d \in {NULL, Some(<<"a">>)},
        b \in {NULL, Some([name |-> "id9", module |-> ThisModule]),
               Some([name |-> "id9", module |-> OtherModule])}}
    \cup {[EmptyModule EXCEPT !.ident =
              <<Identity(1, {}, NULL, NULL),
                Identity(2, {}, NULL, Some([name |-> "id1", module |-> ThisModule]))>>]}

\* Every type, in a top-level typedef, in a root leaf and in a root leaf-list.
TypeModules ==
    {[EmptyModule EXCEPT !.tpdf = <<Typedef(1, {}, NULL, ty)>>] : ty \in Types}
    \cup {[EmptyModule EXCEPT !.data = <<1>>,
              !.nodes = <<[Node(1, k, 0, {}, <<>>) EXCEPT !.type = ty]>>] :
            ty \in Types, k \in {LY_NODE_LEAF, LY_NODE_LEAFLIST}}
    \cup {[EmptyModule EXCEPT !.tpdf = <<Typedef(1, st, d, StringType),
                                         Typedef(2, {}, NULL, StringType)>>] :
            st \in StatusFlags, d \in {NULL, Some(<<"a">>)}}

\* One root node of every kind, config, status and description/reference.
RootModules ==
    {[EmptyModule EXCEPT !.data = <<1>>,
        !.nodes = <<[Node(1, k, 0, cf \cup st, <<>>) EXCEPT !.dsc = d, !.ref = r]>>] :
        k \in NodeKinds, cf \in ConfigFlags, st \in StatusFlags,
        d \in {NULL, Some(<<"a">>)}, r \in {NULL, Some(<<"a">>)}}

\* A root node with children: the child under test (node 2) of every kind and
\* config, alone, before and after a sibling leaf (node 3).
NestedModules ==
    {[EmptyModule EXCEPT !.data = <<1>>,
        !.nodes = <<Node(1, pk, 0, pcf, ch),
                    Node(2, ck, 1, ccf, <<>>),
                    Node(3, LY_NODE_LEAF, 1, pcf, <<>>)>>] :
        pk \in InnerKinds, pcf \in ConfigFlags, ck \in NodeKinds, ccf \in ConfigFlags,
        ch \in {<<2>>, <<2, 3>>, <<3, 2>>}}

\* The injective sequences over S of length at most n.
InjSeqs(S, n) == {q \in SeqsUpTo(S, n) : \A a, b \in 1..Len(q) : a # b => q[a] # q[b]}

\* A list (node 1) whose children are the leaves 2..MaxKeys+1 and a
\* container, with a local typedef, and every choice and order of keys.
KeyModules ==
    {[EmptyModule EXCEPT !.data = <<1>>,
        !.nodes = [id \in 1..(MaxKeys + 2) |->
            IF id = 1
            THEN [Node(1, LY_NODE_LIST, 0, cf, [k \in 1..(MaxKeys + 1) |-> k + 1])
                     EXCEPT !.keys = ks, !.tpdf = td, !.dsc = Some(<<"a">>)]
            ELSE IF id = MaxKeys + 2
            THEN Node(id, LY_NODE_CONTAINER, 1, cf, <<>>)
            ELSE Node(id, LY_NODE_LEAF, 1, cf, <<>>)]] :
        cf \in {{}, {LY_NODE_CONFIG_R}},
        td \in {<<>>, <<Typedef(1, {}, NULL, StringType)>>},
        ks \in InjSeqs(2..(MaxKeys + 1), MaxKeys)}

\* A root choice whose child 2 has a child of its own, before and after a
\* sibling leaf.
ChoiceModules ==
    {[EmptyModule EXCEPT !.data = <<1>>,
        !.nodes = <<Node(1, LY_NODE_CHOICE, 0, {}, ch),
                    Node(2, k, 1, {}, <<4>>),
                    Node(3, LY_NODE_LEAF, 1, {}, <<>>),
                    Node(4, LY_NODE_LEAF, 2, {}, <<>>)>>] :
        k \in InnerKinds, ch \in {<<2, 3>>, <<3, 2>>}}

\* A module with every section, and a tree four levels deep.
FullModule ==
    [EmptyModule EXCEPT
        !.version = 1,
        !.imp = <<[module |-> [name |-> "i1"], prefix |-> <<"p1">>, rev |-> <<"2014">>]>>,
        !.inc = <<[submodule |-> [name |-> "s1"], rev |-> <<"2014">>]>>,
        !.org = Some(<<"a">>), !.contact = Some(<<"a">>),
        !.dsc = Some(<<"a", NL, "a">>), !.ref = Some(<<"a">>),
        !.rev = <<Revision(1, Some(<<"a">>), NULL), Revision(2, NULL, NULL)>>,
        !.ident = <<Identity(1, {}, NULL, NULL)>>,
        !.tpdf = <<Typedef(1, {}, NULL, StringType)>>,
        !.data = <<1, 5, 6>>,
        !.nodes = <<[Node(1, LY_NODE_CONTAINER, 0, {LY_NODE_CONFIG_W}, <<2>>)
                        EXCEPT !.tpdf = <<Typedef(2, {}, Some(<<"a">>), StringType)>>],
                    [Node(2, LY_NODE_LIST, 1, {LY_NODE_CONFIG_W}, <<3, 7>>)
                        EXCEPT !.keys = <<7>>],
                    Node(3, LY_NODE_CHOICE, 2, {LY_NODE_CONFIG_W}, <<4>>),
                    [Node(4, LY_NODE_LEAF, 3, {LY_NODE_CONFIG_R, LY_NODE_STATUS_CURR}, <<>>)
                        EXCEPT !.dsc = Some(<<"a", NL, NL, "a">>)],
                    Node(5, LY_NODE_GROUPING, 0, {}, <<>>),
                    Node(6, LY_NODE_USES, 0, {}, <<>>),
                    Node(7, LY_NODE_LEAF, 2, {LY_NODE_CONFIG_W}, <<>>)>>]

Modules ==
    HeaderModules \cup ImpIncModules \cup RevModules \cup TextModules
    \cup IdentModules \cup TypeModules \cup RootModules \cup NestedModules
    \cup KeyModules \cup ChoiceModules \cup {FullModule}

\* The modules printed to a sink that fails.
IOModules == HeaderModules \cup {FullModule}

(***************************************************************************)
(* The sink (FILE *f) and the state of yang_print_model                    *)
(***************************************************************************)
VARIABLES
    module,     \* the module being printed (read only)
    pc,         \* the statement of yang_print_model to execute next
    i,          \* the loop counter i of yang_print_model (0-based, as in the source)
    level,      \* the local variable level of yang_print_model
    out,        \* the characters the sink has accepted
    attempts,   \* the number of fprintf/fwrite calls made so far
    ioerr,      \* the sink's error indicator: some write has failed
    failAt,     \* the sink: the number of the first write that fails, 0 for never
    sticky,     \* the sink: every write after the first failing one fails too
    ret         \* the value returned by yang_print_model, NULL before it returns

vars == <<module, pc, i, level, out, attempts, ioerr, failAt, sticky, ret>>

EXIT_SUCCESS == 0

\* Variant: the typedefs are printed before the identities.
StatementOrder_typedefsFirst ==
    <<"module", "namespace", "prefix", "version", "imp", "inc", "org", "contact",
      "dsc", "ref", "rev", "tpdf", "ident", "data", "close", "done">>

\* The statements of yang_print_model in the order of the source; "done" is
\* the state after the return.
StatementOrder ==
    <<"module", "namespace", "prefix", "version", "imp", "inc", "org", "contact",
      "dsc", "ref", "rev", "ident", "tpdf", "data", "close", "done">>

\* The statement that follows statement s.
After(s) ==
    StatementOrder[(CHOOSE k \in 1..Len(StatementOrder) : StatementOrder[k] = s) + 1]

\* What a read of rev beyond the end of module->imp may find.
GarbageRev == {<<>>, <<"?">>}

\* Whether the n-th write to the sink fails.
WriteFails(n) == failAt # 0 /\ (n = failAt \/ (sticky /\ n > failAt))

\* What the sink accepts of the fragments frags[k..], written one fprintf
\* after the other when base writes were made before frags[1]; no return value
\* is looked at, so a failed write is followed by the next one.
RECURSIVE Fwrite(_, _, _)
Fwrite(frags, base, k) ==
    IF k > Len(frags) THEN <<>>
    ELSE (IF WriteFails(base + k) THEN <<>> ELSE frags[k])
             \o Fwrite(frags, base, k + 1)

\* The action's writes: frags go to the sink in order.
Write(frags) ==
    /\ out' = out \o Fwrite(frags, attempts, 1)
    /\ attempts' = attempts + Len(frags)
    /\ ioerr' = (ioerr \/ \E k \in 1..Len(frags) : WriteFails(attempts + k))

TypeOK ==
    /\ pc \in {StatementOrder[k] : k \in 1..Len(StatementOrder)}
    /\ i \in Nat
    /\ level \in Nat
    /\ attempts \in Nat
    /\ ioerr \in BOOLEAN

InitSink(fails) ==
    /\ pc = "module"
    /\ i = 0
    /\ level = 0
    /\ out = <<>>
    /\ attempts = 0
    /\ ioerr = FALSE
    /\ ret = NULL
    /\ failAt \in fails
    /\ sticky \in (IF fails = {0} THEN {FALSE} ELSE BOOLEAN)

\* A sink that accepts every write.
Init == module \in Modules /\ InitSink({0})

\* A sink that fails at some write.
InitIO == module \in IOModules /\ InitSink(1..MaxFailAt)

\* fprintf(f, "module %s {\n", module->name); level++;
PrintModule ==
    /\ pc = "module"
    /\ Write(<<(<<"module", SP, module.name, SP, "{", NL>>)>>)
    /\ level' = level + 1
    /\ pc' = After(pc)
    /\ UNCHANGED <<module, i, failAt, sticky, ret>>

PrintNamespace ==
    /\ pc = "namespace"
    /\ Write(<<Indent(level) \o <<"namespace", SP, QUOTE, module.ns, QUOTE, ";", NL>>>>)
    /\ pc' = After(pc)
    /\ UNCHANGED <<module, i, level, failAt, sticky, ret>>

PrintPrefix ==
    /\ pc = "prefix"
    /\ Write(<<Indent(level) \o <<"prefix", SP, QUOTE, module.prefix, QUOTE, ";", NL>>>>)
    /\ pc' = After(pc)
    /\ UNCHANGED <<module, i, level, failAt, sticky, ret>>

PrintVersion ==
    /\ pc = "version"
    /\ IF module.version # 0
       THEN Write(<<Indent(level) \o
                      <<"yang-version", SP, QUOTE,
                        IF module.version = 1 THEN "1.0" ELSE "1.1", QUOTE, ";", NL>>>>)
       ELSE UNCHANGED <<out, attempts, ioerr>>
    /\ pc' = After(pc)
    /\ i' = 0
    /\ UNCHANGED <<module, level, failAt, sticky, ret>>

\* One iteration of the loop over module->imp, or its exit.
ImportFrags(lvl, imp) ==
    <<Indent(lvl) \o <<"import", SP, QUOTE, imp.module.name, QUOTE, SP, "{", NL>>>>
        \o yang_print_text(lvl + 1, "prefix", imp.prefix)
        \o (IF imp.rev # <<>>
            THEN yang_print_text(lvl + 1, "revision-date", imp.rev)
            ELSE <<>>)
        \o <<Indent(lvl) \o <<"}", NL>>>>

PrintImport ==
    /\ pc = "imp"
    /\ IF i < Len(module.imp)
       THEN /\ Write(ImportFrags(level, module.imp[i + 1]))
            /\ i' = i + 1
            /\ pc' = pc
       ELSE /\ pc' = After(pc)
            /\ i' = 0
            /\ UNCHANGED <<out, attempts, ioerr>>
    /\ UNCHANGED <<module, level, failAt, sticky, ret>>

\* One include; imprev is what module->imp[i].rev reads.
IncludeFrags(lvl, inc, imprev) ==
    IF inc.rev # <<>>
    THEN <<Indent(lvl) \o <<"include", SP, QUOTE, inc.submodule.name, QUOTE, SP, "{", NL>>>>
             \o yang_print_text(lvl + 1, "revision-date", imprev)
             \o <<Indent(lvl) \o <<"}", NL>>>>
    ELSE <<Indent(lvl) \o <<"include", SP, QUOTE, inc.submodule.name, QUOTE, ";", NL>>>>

\* One iteration of the loop over module->inc, or its exit.  The revision-date
\* is read from module->imp[i]; beyond imp_size the read finds anything.
PrintInclude ==
    /\ pc = "inc"
    /\ IF i < Len(module.inc)
       THEN /\ \E imprev \in (IF i < Len(module.imp)
                              THEN {module.imp[i + 1].rev}
                              ELSE GarbageRev) :
                 Write(IncludeFrags(level, module.inc[i + 1], imprev))
            /\ i' = i + 1
            /\ pc' = pc
       ELSE /\ pc' = After(pc)
            /\ UNCHANGED <<out, attempts, ioerr, i>>
    /\ UNCHANGED <<module, level, failAt, sticky, ret>>

\* if (text) yang_print_text(f, level, name, text);
PrintOptText(name, text) ==
    IF IsSet(text)
    THEN Write(yang_print_text(level, name, Val(text)))
    ELSE UNCHANGED <<out, attempts, ioerr>>

PrintOrg ==
    /\ pc = "org"
    /\ PrintOptText("organization", module.org)
    /\ pc' = After(pc)
    /\ UNCHANGED <<module, i, level, failAt, sticky, ret>>

PrintContact ==
    /\ pc = "contact"
    /\ PrintOptText("contact", module.contact)
    /\ pc' = After(pc)
    /\ UNCHANGED <<module, i, level, failAt, sticky, ret>>

PrintDsc ==
    /\ pc = "dsc"
    /\ PrintOptText("description", module.dsc)
    /\ pc' = After(pc)
    /\ UNCHANGED <<module, i, level, failAt, sticky, ret>>

PrintRef ==
    /\ pc = "ref"
    /\ PrintOptText("reference", module.ref)
    /\ pc' = After(pc)
    /\ i' = 0
    /\ UNCHANGED <<module, level, failAt, sticky, ret>>

RevisionFrags(lvl, rev) ==
    IF IsSet(rev.dsc) \/ IsSet(rev.ref)
    THEN <<Indent(lvl) \o <<"revision", SP, QUOTE>> \o rev.date \o <<QUOTE, SP, "{", NL>>>>
             \o (IF IsSet(rev.dsc)
                 THEN yang_print_text(lvl + 1, "description", Val(rev.dsc))
                 ELSE <<>>)
             \o (IF IsSet(rev.ref)
                 THEN yang_print_text(lvl + 1, "reference", Val(rev.ref))
                 ELSE <<>>)
             \o <<Indent(lvl) \o <<"}", NL>>>>
    ELSE yang_print_text(lvl, "revision", rev.date)

\* One iteration of the loop over module->rev, or its exit.
PrintRevision ==
    /\ pc = "rev"
    /\ IF i < Len(module.rev)
       THEN /\ Write(RevisionFrags(level, module.rev[i + 1]))
            /\ i' = i + 1
            /\ pc' = pc
       ELSE /\ pc' = After(pc)
            /\ i' = 0
            /\ UNCHANGED <<out, attempts, ioerr>>
    /\ UNCHANGED <<module, level, failAt, sticky, ret>>

\* One iteration of the loop over module->ident, or its exit.
PrintIdentity ==
    /\ pc = "ident"
    /\ IF i < Len(module.ident)
       THEN /\ Write(yang_print_identity(level, module.ident[i + 1]))
            /\ i' = i + 1
            /\ pc' = pc
       ELSE /\ pc' = After(pc)
            /\ i' = 0
            /\ UNCHANGED <<out, attempts, ioerr>>
    /\ UNCHANGED <<module, level, failAt, sticky, ret>>

\* One iteration of the loop over module->tpdf, or its exit.
PrintTypedef ==
    /\ pc = "tpdf"
    /\ IF i < Len(module.tpdf)
       THEN /\ Write(yang_print_typedef(level, module.name, module.tpdf[i + 1]))
            /\ i' = i + 1
            /\ pc' = pc
       ELSE /\ pc' = After(pc)
            /\ i' = 0
            /\ UNCHANGED <<out, attempts, ioerr>>
    /\ UNCHANGED <<module, level, failAt, sticky, ret>>

\* One step of LY_TREE_FOR(module->data, mnode), or its exit; i counts the
\* siblings already visited.
PrintData ==
    /\ pc = "data"
    /\ IF i < Len(module.data)
       THEN /\ Write(yang_print_mnode(module.nodes, level, module.data[i + 1], MaskAll))
            /\ i' = i + 1
            /\ pc' = pc
       ELSE /\ pc' = After(pc)
            /\ UNCHANGED <<out, attempts, ioerr, i>>
    /\ UNCHANGED <<module, level, failAt, sticky, ret>>

\* fprintf(f, "}\n"); return EXIT_SUCCESS;
PrintClose ==
    /\ pc = "close"
    /\ Write(<<(<<"}", NL>>)>>)
    /\ ret' = Some(EXIT_SUCCESS)
    /\ pc' = After(pc)
    /\ UNCHANGED <<module, i, level, failAt, sticky>>

Next ==
    \/ PrintModule
    \/ PrintNamespace
    \/ PrintPrefix
    \/ PrintVersion
    \/ PrintImport
    \/ PrintInclude
    \/ PrintOrg
    \/ PrintContact
    \/ PrintDsc
    \/ PrintRef
    \/ PrintRevision
    \/ PrintIdentity
    \/ PrintTypedef
    \/ PrintData
    \/ PrintClose

Spec == Init /\ [][Next]_vars

SpecIO == InitIO /\ [][Next]_vars

(***************************************************************************)
(* Reading the output back: lines, indentation, blocks.                    *)
(***************************************************************************)
\* q[lo..hi] cut at every NL: the pieces between the newlines, in order (one
\* more than there are newlines).
RECURSIVE Split(_, _, _)
Split(q, lo, hi) ==
    IF lo > hi THEN <<(<<>>)>>
    ELSE IF lo = hi THEN (IF q[lo] = NL THEN <<(<<>>), (<<>>)>> ELSE <<(<<q[lo]>>)>>)
    ELSE LET mid == (lo + hi) \div 2
             A == Split(q, lo, mid)
             B == Split(q, mid + 1, hi)
         IN  SubSeq(A, 1, Len(A) - 1) \o <<A[Len(A)] \o B[1]>> \o SubSeq(B, 2, Len(B))

\* The lines of q that are terminated by a newline, without the newline.
Lines(q) == LET P == Split(q, 1, Len(q)) IN SubSeq(P, 1, Len(P) - 1)

\* q ends with a newline (or is empty).
EndsLines(q) == q = <<>> \/ q[Len(q)] = NL

\* The number of spaces a line begins with, and the rest of the line.
LeadSP(l) ==
    CHOOSE n \in 0..Len(l) :
        /\ \A k \in 1..n : l[k] = SP
        /\ n = Len(l) \/ l[n + 1] # SP
Body(l) == SubSeq(l, LeadSP(l) + 1, Len(l))
First(l) == IF Body(l) = <<>> THEN "" ELSE Body(l)[1]
Last(l) == IF l = <<>> THEN "" ELSE l[Len(l)]

Min(S) == CHOOSE x \in S : \A y \in S : x <= y

\* The line that opens the block of the statement kw name, 0 if there is none.
FindOpen(L, kw, name) ==
    LET J == {j \in 1..Len(L) : Body(L[j]) = <<kw, SP, name, SP, "{">>}
    IN  IF J = {} THEN 0 ELSE Min(J)

\* The line that closes the block opened by line j: the first later line that
\* is a lone closing brace at the indentation of line j.
BlockEnd(L, j) ==
    LET K == {k \in (j + 1)..Len(L) :
                LeadSP(L[k]) = LeadSP(L[j]) /\ Body(L[k]) = <<"}">>}
    IN  IF K = {} THEN Len(L) + 1 ELSE Min(K)

\* The lines directly inside the block opened by line j: one level deeper.
OwnLines(L, j) ==
    {k \in (j + 1)..(BlockEnd(L, j) - 1) :
        LeadSP(L[k]) = LeadSP(L[j]) + 2 /\ Body(L[k]) # <<>>}

\* Those among them that begin with the token t.
OwnWith(L, j, t) == {k \in OwnLines(L, j) : First(L[k]) = t}

KindOf(n) == CHOOSE k \in n.nodetype : TRUE

Keyword(kind) ==
    CASE kind = LY_NODE_CONTAINER -> "container"
      [] kind = LY_NODE_CHOICE -> "choice"
      [] kind = LY_NODE_LEAF -> "leaf"
      [] kind = LY_NODE_LEAFLIST -> "leaf-list"
      [] kind = LY_NODE_LIST -> "list"
      [] kind = LY_NODE_USES -> "uses"
      [] kind = LY_NODE_GROUPING -> "grouping"

NodeKeywords == {Keyword(k) : k \in NodeKinds}

\* The line that opens node id's block, 0 if the node is not in the output.
NodeOpen(L, id) ==
    FindOpen(L, Keyword(KindOf(module.nodes[id])), module.nodes[id].name)

ConfigOf(flags) == flags \cap {LY_NODE_CONFIG_W, LY_NODE_CONFIG_R}

ConfigAwareKinds ==
    {LY_NODE_CONTAINER, LY_NODE_CHOICE, LY_NODE_LEAF, LY_NODE_LEAFLIST, LY_NODE_LIST}

\* The block opened by line j has no config line (v = "") or exactly one, of
\* value v.
HasConfig(L, j, v) ==
    LET K == OwnWith(L, j, "config")
    IN  IF v = "" THEN K = {}
        ELSE /\ Cardinality(K) = 1
             /\ \A k \in K : Body(L[k]) = <<"config", SP, QUOTE, v, QUOTE, ";">>

ConfigValue(flags) ==
    IF LY_NODE_CONFIG_W \in flags THEN "true"
    ELSE IF LY_NODE_CONFIG_R \in flags THEN "false"
    ELSE ""

(***************************************************************************)
(* C1.  Config suppression.                                                *)
(***************************************************************************)
\* C1 as stated: for every node printed by a config-aware printer, a node
\* with a parent whose config flag equals the parent's has no config line in
\* its own block; a node whose flag differs from its parent's, and a root node
\* with a flag set, has exactly one, "true" for writable, "false" for
\* read-only.
C1_AsStated ==
    LET L == Lines(out) IN
    \A id \in DOMAIN module.nodes :
        LET n == module.nodes[id]
            j == NodeOpen(L, id)
        IN  (KindOf(n) \in ConfigAwareKinds /\ j # 0 /\ BlockEnd(L, j) <= Len(L)) =>
              IF n.parent # 0
              THEN IF ConfigOf(module.nodes[n.parent].flags) = ConfigOf(n.flags)
                   THEN HasConfig(L, j, "")
                   ELSE /\ Cardinality(OwnWith(L, j, "config")) = 1
                        /\ ConfigOf(n.flags) # {} => HasConfig(L, j, ConfigValue(n.flags))
              ELSE ConfigOf(n.flags) # {} => HasConfig(L, j, ConfigValue(n.flags))

\* C1 amended: the block of a node printed by a config-aware printer has
\* exactly one config line, "true" for writable and "false" for read-only,
\* when the node's config flag is set and the node is a root node or its flag
\* differs from its parent's; it has no config line in every other case (the
\* flag equals the parent's, or the node's own flag is unset).
C1_ConfigLine ==
    LET L == Lines(out) IN
    \A id \in DOMAIN module.nodes :
        LET n == module.nodes[id]
            j == NodeOpen(L, id)
        IN  (KindOf(n) \in ConfigAwareKinds /\ j # 0 /\ BlockEnd(L, j) <= Len(L)) =>
              IF /\ ConfigOf(n.flags) # {}
                 /\ \/ n.parent = 0
                    \/ ConfigOf(module.nodes[n.parent].flags) # ConfigOf(n.flags)
              THEN HasConfig(L, j, ConfigValue(n.flags))
              ELSE HasConfig(L, j, "")

\* A printed child whose set config flag differs from its parent's set flag,
\* next to a printed sibling that inherits the parent's flag.
C1_Witness ==
    /\ pc = "done"
    /\ \E id \in DOMAIN module.nodes :
        LET n == module.nodes[id] IN
        /\ KindOf(n) \in ConfigAwareKinds
        /\ n.parent # 0
        /\ ConfigOf(n.flags) # {}
        /\ ConfigOf(module.nodes[n.parent].flags) # {}
        /\ ConfigOf(module.nodes[n.parent].flags) # ConfigOf(n.flags)
        /\ NodeOpen(Lines(out), id) # 0
        /\ \E sib \in DOMAIN module.nodes :
            /\ sib # id
            /\ module.nodes[sib].parent = n.parent
            /\ module.nodes[sib].flags = module.nodes[n.parent].flags
            /\ NodeOpen(Lines(out), sib) # 0

(***************************************************************************)
(* C8.  Status line of the common metadata.                                *)
(***************************************************************************)
StatusOf(flags) ==
    flags \cap {LY_NODE_STATUS_CURR, LY_NODE_STATUS_DEPRC, LY_NODE_STATUS_OBSLT}

StatusWord(bit) ==
    CASE bit = LY_NODE_STATUS_CURR -> "current"
      [] bit = LY_NODE_STATUS_DEPRC -> "deprecated"
      [] bit = LY_NODE_STATUS_OBSLT -> "obsolete"

\* The types of the module: of its typedefs, of the typedefs local to its
\* nodes, and of its leaves and leaf-lists.
AllTypedefs(m) ==
    {m.tpdf[k] : k \in DOMAIN m.tpdf}
    \cup UNION {{m.nodes[id].tpdf[k] : k \in DOMAIN m.nodes[id].tpdf} : id \in DOMAIN m.nodes}

TypedNodes(m) ==
    {id \in DOMAIN m.nodes : KindOf(m.nodes[id]) \in {LY_NODE_LEAF, LY_NODE_LEAFLIST}}

AllTypes(m) ==
    {t.type : t \in AllTypedefs(m)} \cup {m.nodes[id].type : id \in TypedNodes(m)}

\* Everything that goes through the common-metadata printer: the statement's
\* keyword, its name and its record (flags, dsc, ref).
Entities(m) ==
    {[kw |-> Keyword(KindOf(m.nodes[id])), name |-> m.nodes[id].name,
      flags |-> m.nodes[id].flags] : id \in DOMAIN m.nodes}
    \cup {[kw |-> "typedef", name |-> t.name, flags |-> t.flags] : t \in AllTypedefs(m)}
    \cup {[kw |-> "identity", name |-> m.ident[k].name, flags |-> m.ident[k].flags] :
            k \in DOMAIN m.ident}
    \cup UNION {{[kw |-> "enum", name |-> ty.enums[k].name, flags |-> ty.enums[k].flags] :
                    k \in DOMAIN ty.enums} : ty \in AllTypes(m)}

\* C8: for every node, typedef, identity and enum entry printed, its block
\* has no status line when no status bit is set, and exactly one status line,
\* with the keyword of the bit, when exactly one status bit is set; the status
\* line comes before the description and the reference.
C8_StatusLine ==
    LET L == Lines(out) IN
    \A e \in Entities(module) :
        LET j == FindOpen(L, e.kw, e.name)
            K == OwnWith(L, j, "status")
        IN  (j # 0 /\ BlockEnd(L, j) <= Len(L)) =>
              /\ StatusOf(e.flags) = {} => K = {}
              /\ \A bit \in StatusOf(e.flags) :
                    StatusOf(e.flags) = {bit} =>
                      /\ Cardinality(K) = 1
                      /\ \A k \in K :
                            Body(L[k]) = <<"status", SP, QUOTE, StatusWord(bit), QUOTE, ";">>
              /\ \A k \in K :
                    \A d \in OwnWith(L, j, "description") \cup OwnWith(L, j, "reference") :
                        k < d

\* A printed entity with the deprecated bit, a description and a status line.
C8_Witness ==
    /\ pc = "done"
    /\ \E e \in Entities(module) :
        LET L == Lines(out)
            j == FindOpen(L, e.kw, e.name)
        IN  /\ j # 0
            /\ StatusOf(e.flags) = {LY_NODE_STATUS_DEPRC}
            /\ OwnWith(L, j, "status") # {}
            /\ OwnWith(L, j, "description") # {}

(***************************************************************************)
(* C4.  The name of a type.                                                *)
(***************************************************************************)
\* The statements that carry a type: keyword, name, type.
TypeCarriers(m) ==
    {[kw |-> "typedef", name |-> t.name, type |-> t.type] : t \in AllTypedefs(m)}
    \cup {[kw |-> Keyword(KindOf(m.nodes[id])), name |-> m.nodes[id].name,
           type |-> m.nodes[id].type] : id \in TypedNodes(m)}

\* The type line of the block opened at line j.
TypeLine(L, j) == L[Min(OwnWith(L, j, "type"))]

RECURSIVE Subtree(_, _)
Subtree(nodes, id) ==
    {id} \cup UNION {Subtree(nodes, nodes[id].child[k]) : k \in DOMAIN nodes[id].child}

\* The token t occurs in the sequence q.
Occurs(q, t) == \E p \in DOMAIN q : q[p] = t

\* C5: for every printed choice, a child of kind Choice, Uses or Grouping is
\* absent from the output with its whole subtree, and the children of kind
\* Container, Leaf, LeafList and List are the statements of the choice's
\* block, in sibling order.
C5_ChoiceChildren ==
    LET L == Lines(out) IN
    \A c \in DOMAIN module.nodes :
        LET n == module.nodes[c]
            j == NodeOpen(L, c)
            kept == SelectSeq(n.child,
                        LAMBDA x : KindOf(module.nodes[x]) \in
                            {LY_NODE_CONTAINER, LY_NODE_LEAF, LY_NODE_LEAFLIST, LY_NODE_LIST})
            skipped == {n.child[k] : k \in DOMAIN n.child} \ {kept[k] : k \in DOMAIN kept}
            opened == {k \in OwnLines(L, j) : First(L[k]) \in NodeKeywords}
        IN  (KindOf(n) = LY_NODE_CHOICE /\ j # 0 /\ BlockEnd(L, j) <= Len(L)) =>
              /\ \A x \in skipped :
                    /\ KindOf(module.nodes[x]) \in
                           {LY_NODE_CHOICE, LY_NODE_USES, LY_NODE_GROUPING}
                    /\ \A d \in Subtree(module.nodes, x) :
                           ~Occurs(out, module.nodes[d].name)
              /\ Cardinality(opened) = Len(kept)
              /\ \A a \in DOMAIN kept : NodeOpen(L, kept[a]) \in opened
              /\ \A a, b \in DOMAIN kept :
                    a < b => NodeOpen(L, kept[a]) < NodeOpen(L, kept[b])

\* A printed choice with a grouping child that has a child of its own, followed
\* by a leaf that is printed.
C5_Witness ==
    /\ pc = "done"
    /\ \E c \in DOMAIN module.nodes :
        LET n == module.nodes[c] IN
        /\ KindOf(n) = LY_NODE_CHOICE
        /\ NodeOpen(Lines(out), c) # 0
        /\ Len(n.child) = 2
        /\ KindOf(module.nodes[n.child[1]]) = LY_NODE_GROUPING
        /\ module.nodes[n.child[1]].child # <<>>
        /\ KindOf(module.nodes[n.child[2]]) = LY_NODE_LEAF
        /\ NodeOpen(Lines(out), n.child[2]) # 0

(***************************************************************************)
(* C7.  The key line of a list.                                            *)
(***************************************************************************)
\* The names of the nodes ids, separated by single spaces.
RECURSIVE JoinNames(_, _, _)
JoinNames(nodes, ids, k) ==
    IF k > Len(ids) THEN <<>>
    ELSE (IF k > 1 THEN <<SP>> ELSE <<>>) \o <<nodes[ids[k]].name>>
             \o JoinNames(nodes, ids, k + 1)

\* C7: the block of a printed list with keys has exactly one key line, with
\* the key names in declared order separated by single spaces; the block of a
\* list without keys has none; the key line comes after config, status,
\* description and reference and before the typedefs and the children.
C7_KeyLine ==
    LET L == Lines(out) IN
    \A id \in DOMAIN module.nodes :
        LET n == module.nodes[id]
            j == NodeOpen(L, id)
            K == OwnWith(L, j, "key")
        IN  (KindOf(n) = LY_NODE_LIST /\ j # 0 /\ BlockEnd(L, j) <= Len(L)) =>
              /\ n.keys = <<>> => K = {}
              /\ n.keys # <<>> =>
                    /\ Cardinality(K) = 1
                    /\ \A k \in K :
                          Body(L[k]) = <<"key", SP, QUOTE>>
                                           \o JoinNames(module.nodes, n.keys, 1)
                                           \o <<QUOTE, ";">>
              /\ \A k \in K : \A o \in OwnLines(L, j) :
                    /\ First(L[o]) \in {"config", "status", "description", "reference"}
                          => o < k
                    /\ First(L[o]) \in {"typedef"} \cup NodeKeywords => k < o

\* A printed list whose keys are declared against the order of its children,
\* with config, description, a typedef and children around the key line.
C7_Witness ==
    /\ pc = "done"
    /\ \E id \in DOMAIN module.nodes :
        LET n == module.nodes[id]
            L == Lines(out)
            j == NodeOpen(L, id)
        IN  /\ KindOf(n) = LY_NODE_LIST
            /\ j # 0
            /\ Len(n.keys) >= 2
            /\ n.keys[1] > n.keys[2]
            /\ OwnWith(L, j, "config") # {}
            /\ OwnWith(L, j, "description") # {}
            /\ OwnWith(L, j, "typedef") # {}
            /\ OwnWith(L, j, "key") # {}

(***************************************************************************)
(* C3.  The order of the sections of a module.                             *)
(***************************************************************************)
\* The statements of the module's own block, in the order of the claim: the
\* first line of each, without its indentation.
ExpectedHeads(m) ==
    <<(<<"namespace", SP, QUOTE, m.ns, QUOTE, ";">>),
      (<<"prefix", SP, QUOTE, m.prefix, QUOTE, ";">>)>>
    \o (IF m.version = 0 THEN <<>>
        ELSE <<(<<"yang-version", SP, QUOTE,
                  IF m.version = 1 THEN "1.0" ELSE "1.1", QUOTE, ";">>)>>)
    \o [k \in 1..Len(m.imp) |->
            <<"import", SP, QUOTE, m.imp[k].module.name, QUOTE, SP, "{">>]
    \o [k \in 1..Len(m.inc) |->
            <<"include", SP, QUOTE, m.inc[k].submodule.name, QUOTE>>
                \o (IF m.inc[k].rev = <<>> THEN <<";">> ELSE <<SP, "{">>)]
    \o (IF m.org = NULL THEN <<>> ELSE <<(<<"organization">>)>>)
    \o (IF m.contact = NULL THEN <<>> ELSE <<(<<"contact">>)>>)
    \o (IF m.dsc = NULL THEN <<>> ELSE <<(<<"description">>)>>)
    \o (IF m.ref = NULL THEN <<>> ELSE <<(<<"reference">>)>>)
    \o [k \in 1..Len(m.rev) |->
            IF m.rev[k].dsc = NULL /\ m.rev[k].ref = NULL
            THEN <<"revision">>
            ELSE <<"revision", SP, QUOTE>> \o m.rev[k].date \o <<QUOTE, SP, "{">>]
    \o [k \in 1..Len(m.ident) |-> <<"identity", SP, m.ident[k].name, SP, "{">>]
    \o [k \in 1..Len(m.tpdf) |-> <<"typedef", SP, m.tpdf[k].name, SP, "{">>]
    \o [k \in 1..Len(m.data) |->
            <<Keyword(KindOf(m.nodes[m.data[k]])), SP, m.nodes[m.data[k]].name, SP, "{">>]

\* The statements of the module's block found in the output: the lines at
\* one level of indentation, but for the closing braces.
Heads(L) ==
    LET H == SelectSeq(L, LAMBDA l : LeadSP(l) = 2 /\ Body(l) \notin {<<>>, <<"}">>})
    IN  [k \in 1..Len(H) |-> Body(H[k])]

IsPrefix(a, b) == Len(a) <= Len(b) /\ a = SubSeq(b, 1, Len(a))

\* C3: the output begins with the module header line; the statements of the
\* module's block come in the fixed order namespace, prefix, yang-version (if
\* set), imports, includes, organization, contact, description, reference,
\* revisions, identities, typedefs, top-level nodes in sibling order, each
\* complete before the next begins; the closing brace is the last thing written.
C3_SectionOrder ==
    LET L == Lines(out) IN
    /\ EndsLines(out)
    /\ L # <<>> => L[1] = <<"module", SP, module.name, SP, "{">>
    /\ IsPrefix(Heads(L), ExpectedHeads(module))
    /\ \A k \in 2..Len(L) :
          (L[k] # <<>> /\ LeadSP(L[k]) = 0) => (pc = "done" /\ k = Len(L))
    /\ pc = "done" =>
          /\ Heads(L) = ExpectedHeads(module)
          /\ L[Len(L)] = <<"}">>

\* The module with every section has been printed.
C3_Witness ==
    /\ pc = "done"
    /\ module.version # 0
    /\ module.imp # <<>> /\ module.inc # <<>>
    /\ module.org # NULL /\ module.contact # NULL
    /\ module.dsc # NULL /\ module.ref # NULL
    /\ Len(module.rev) >= 2 /\ module.ident # <<>> /\ module.tpdf # <<>>
    /\ Len(module.data) >= 2
    /\ Len(Heads(Lines(out))) >= 15

(***************************************************************************)
(* C6.  The text-field printer.                                            *)
(***************************************************************************)
RECURSIVE Concat(_, _)
Concat(qs, k) == IF k > Len(qs) THEN <<>> ELSE qs[k] \o Concat(qs, k + 1)

\* The field of the claim: the label alone on a line at level L, then the n+1
\* lines of the text, each behind 2*(L+1) spaces, the first behind an opening
\* quote, the last followed by the closing quote and a semicolon; tail is
\* what follows the last line.
TextField(L, label, text, tail) ==
    LET T == Split(text, 1, Len(text))
    IN  [k \in 1..(2 * L) |-> SP] \o <<label, NL>>
        \o Concat([k \in 1..Len(T) |->
                      [x \in 1..(2 * (L + 1)) |-> SP]
                          \o (IF k = 1 THEN <<QUOTE>> ELSE <<>>)
                          \o T[k]
                          \o (IF k = Len(T) THEN <<QUOTE, ";">> ELSE <<>>)
                          \o <<NL>>], 1)
        \o tail

\* What printing the module's description, and a revision that has a
\* description only, adds to the output, with tail after the field.
TextFieldSteps(tail) ==
    /\ (pc = "dsc" /\ module.dsc # NULL) =>
          out' = out \o TextField(1, "description", module.dsc[1], tail)
    /\ (/\ pc = "rev" /\ i < Len(module.rev)
        /\ module.rev[i + 1].dsc # NULL /\ module.rev[i + 1].ref = NULL) =>
          out' = out \o <<SP, SP, "revision", SP, QUOTE>> \o module.rev[i + 1].date
                     \o <<QUOTE, SP, "{", NL>>
                     \o TextField(2, "description", module.rev[i + 1].dsc[1], tail)
                     \o <<SP, SP, "}", NL>>

\* C6 as stated: the text-field printer writes the label line and the n+1
\* body lines, and nothing else.
C6_AsStated == [][TextFieldSteps(<<>>)]_vars

\* C6 amended: the text-field printer writes the label line, the n+1 body
\* lines as the claim describes them, and then one empty line.
C6_TextField == [][TextFieldSteps(<<NL>>)]_vars

\* A description with two newlines has been printed at level 1.
C6_Witness ==
    /\ pc = "ref"
    /\ module.dsc # NULL
    /\ Len(Split(module.dsc[1], 1, Len(module.dsc[1]))) = 3
    /\ Len(Lines(out)) >= 8

\* A description with a newline has been printed at level 2, in a revision.
C6_WitnessNested ==
    /\ pc = "rev" /\ i = 1
    /\ module.rev[1].dsc # NULL /\ module.rev[1].ref = NULL
    /\ Occurs(module.rev[1].dsc[1], NL)
    /\ Occurs(out, "revision")

(***************************************************************************)
(* C10.  Indentation and braces.                                           *)
(***************************************************************************)
\* The labels the text-field printer is called with.
TextLabels ==
    {"prefix", "revision-date", "organization", "contact", "description",
     "reference", "revision"}

EndsText(b) == Len(b) >= 2 /\ b[Len(b) - 1] = QUOTE /\ b[Len(b)] = ";"

\* The lines L[k..] are indented as their nesting demands.  stack holds the
\* indentation of the line that opened each block still open, innermost last,
\* so the nesting depth is Len(stack); the body of a text field is nested one
\* deeper than its label.  txt is 0 outside a text field, 1 before the first
\* line of its body, 2 inside the body, 3 after its last line.  With blankOK
\* the empty line after a text field is exempt; without it, it is a line like
\* any other.
RECURSIVE Indented(_, _, _, _, _)
Indented(L, k, stack, txt, blankOK) ==
    IF k > Len(L) THEN TRUE
    ELSE LET l == L[k]
             ind == LeadSP(l)
             b == Body(l)
             depth == Len(stack)
         IN  CASE txt = 1 ->
                    /\ ind = 2 * (depth + 1)
                    /\ First(l) = QUOTE
                    /\ Indented(L, k + 1, stack,
                                IF Len(b) >= 3 /\ EndsText(b) THEN 3 ELSE 2, blankOK)
               [] txt = 2 ->
                    /\ ind = 2 * (depth + 1)
                    /\ Indented(L, k + 1, stack, IF EndsText(b) THEN 3 ELSE 2, blankOK)
               [] txt = 3 /\ blankOK ->
                    /\ l = <<>>
                    /\ Indented(L, k + 1, stack, 0, blankOK)
               [] OTHER ->
                    IF b = <<"}">>
                    THEN /\ depth > 0
                         /\ ind = stack[depth]
                         /\ ind = 2 * (depth - 1)
                         /\ Indented(L, k + 1, SubSeq(stack, 1, depth - 1), 0, blankOK)
                    ELSE /\ ind = 2 * depth
                         /\ b # <<>> \/ depth = 0
                         /\ Indented(L, k + 1,
                                     IF Last(l) = "{" THEN Append(stack, ind) ELSE stack,
                                     IF Len(b) = 1 /\ b[1] \in TextLabels THEN 1 ELSE 0,
                                     blankOK)

Count(q, t) == Cardinality({p \in DOMAIN q : q[p] = t})

\* Printed siblings open their blocks at the same indentation.
SiblingsAligned(L) ==
    \A a, b \in DOMAIN module.nodes :
        (/\ module.nodes[a].parent = module.nodes[b].parent
         /\ NodeOpen(L, a) # 0 /\ NodeOpen(L, b) # 0) =>
            LeadSP(L[NodeOpen(L, a)]) = LeadSP(L[NodeOpen(L, b)])

\* C10 as stated: every line of the output is indented by two spaces times
\* its nesting depth, a closing brace stands at the indentation of the line
\* that opened its block, siblings see the same indentation, and at the return
\* as many closing as opening braces have been written.
C10_AsStated ==
    LET L == Lines(out) IN
    /\ Indented(L, 1, <<>>, 0, FALSE)
    /\ SiblingsAligned(L)
    /\ pc = "done" => Count(out, "{") = Count(out, "}")

\* C10 amended: the same of every line but the empty line that follows each
\* text field, which carries no indentation at any depth.
C10_Indentation ==
    LET L == Lines(out) IN
    /\ Indented(L, 1, <<>>, 0, TRUE)
    /\ SiblingsAligned(L)
    /\ pc = "done" => Count(out, "{") = Count(out, "}")

\* The module with a tree four levels deep and a multi-line description at
\* the innermost level has been printed.
C10_Witness ==
    /\ pc = "done"
    /\ \E l \in {Lines(out)[k] : k \in DOMAIN Lines(out)} :
          LeadSP(l) = 12 /\ ~EndsText(Body(l)) /\ Body(l) # <<>>
    /\ \E id \in DOMAIN module.nodes :
          /\ KindOf(module.nodes[id]) = LY_NODE_CHOICE
          /\ module.nodes[id].parent # 0
          /\ NodeOpen(Lines(out), id) # 0
    /\ Count(out, "{") >= 10

(***************************************************************************)
(* C9.  The revision-date of an include.                                   *)
(***************************************************************************)
\* What the claim has include inc add to the output at level lvl: the block
\* form with inc's own revision-date if it is set, else the single line.
OwnInclude(lvl, inc) ==
    IF inc.rev # <<>>
    THEN [k \in 1..(2 * lvl) |-> SP]
             \o <<"include", SP, QUOTE, inc.submodule.name, QUOTE, SP, "{", NL>>
             \o TextField(lvl + 1, "revision-date", inc.rev, <<NL>>)
             \o [k \in 1..(2 * lvl) |-> SP] \o <<"}", NL>>
    ELSE [k \in 1..(2 * lvl) |-> SP]
             \o <<"include", SP, QUOTE, inc.submodule.name, QUOTE, ";", NL>>

\* C9: every include is printed in the block form exactly when its own
\* revision-date is set, with its own revision-date, whatever the imports are.
C9_IncludeOwnRevision ==
    [][(pc = "inc" /\ i < Len(module.inc)) =>
          out' = out \o OwnInclude(level, module.inc[i + 1])]_vars

(***************************************************************************)
(* C2.  A write to the sink fails.                                         *)
(***************************************************************************)
\* C2: after a write has failed no further write is made, and print returns
\* EXIT_SUCCESS exactly when no write has failed.  (Checked under SpecIO.)
C2_AbortOnWriteFailure ==
    /\ ioerr => attempts = failAt
    /\ pc = "done" => (ret[1] = EXIT_SUCCESS <=> ~ioerr)

====
